---- MODULE Spec2Model ----
(***************************************************************************)
(* A model of rlua-async (src/src/lib.rs): the bridge between host futures *)
(* that are polled and Lua coroutines that yield.                          *)
(*                                                                         *)
(* One host thread owns the Lua state.  It creates call_async futures,     *)
(* polls them and drops them.  A poll of a PollThreadFut installs the task *)
(* context in FUTURE_CTX, resumes the coroutine once, and turns the        *)
(* coroutine's status into a Poll value.  Inside the resume the script     *)
(* runs; a call of an adapted function runs the start stage (the producer  *)
(* is invoked and its future pinned), then the "coroutine yield helper"    *)
(* loop, which calls the poll-step closure and yields while it is pending. *)
(* The poll is modelled step by step, so that the states inside one poll   *)
(* (relay installed, coroutine running) are states of the model.           *)
(***************************************************************************)
EXTENDS Integers, Sequences, FiniteSets, TLC

(***************************************************************************)
(* Bounds of the model.                                                    *)
(***************************************************************************)
NumInv == 2         \* call_async futures the host creates
MaxArg == 1         \* call arguments are 0..MaxArg
MaxDelay == 2       \* the producer futures of a run report pending MaxDelay times in all

Invs == 1..NumInv
Args == 0..MaxArg

(***************************************************************************)
(* Lua values, Rust Results and Poll values.                               *)
(***************************************************************************)
LNil == [tag |-> "nil", v |-> 0]
LInt(n) == [tag |-> "int", v |-> n]
LTable(s) == [tag |-> "table", arr |-> s]

Ok(x) == [ok |-> TRUE, val |-> x]
Err(e) == [ok |-> FALSE, err |-> e]

PollPending == [ready |-> FALSE]
PollReady(r) == [ready |-> TRUE, res |-> r]

None == <<>>
Some(x) == <<x>>

\* The errors that occur.
ProducerErr(ad, a) == [kind |-> "Producer", ad |-> ad, arg |-> a]
CoroutineInactive == [kind |-> "CoroutineInactive"]
FromLuaConversionError == [kind |-> "FromLuaConversionError"]
RuntimeError == [kind |-> "RuntimeError"]
ThreadCreateError == [kind |-> "ThreadCreateError"]

\* usize -> Lua (ToLua for usize): an integer value.
ToLua(n) == LInt(n)

\* Lua -> usize (FromLua for usize): integers that are not negative.
FromLua(x) ==
    IF x.tag = "int" /\ x.v >= 0 THEN Ok(x.v) ELSE Err(FromLuaConversionError)

\* FromLuaMulti for one usize: the first value, nil when there is none.
FromLuaMulti(vs) == FromLua(IF Len(vs) = 0 THEN LNil ELSE vs[1])

(***************************************************************************)
(* The host's inputs: producers and script functions.                      *)
(*   f: |_, a: usize| future::ok(a + 1)      (the tests' producer)         *)
(*   g: |_, a: usize| future::ok(2 * a)      (a second adapted callable)   *)
(*   "plain": function(a) return a end                                     *)
(*   "fwd":   function(a) return f(a) - 1 end   (the tests' script)        *)
(*   "two":   function(a) return f(a) + g(a) end                           *)
(***************************************************************************)
Adapters == {"f", "g"}
Scripts == {"plain", "fwd", "two"}

Producer(ad, a) == IF ad = "f" THEN a + 1 ELSE 2 * a

\* The adapted callables a script calls, in evaluation order.
Calls(s) ==
    CASE s = "plain" -> <<>>
      [] s = "fwd"   -> <<"f">>
      [] s = "two"   -> <<"f", "g">>

MaxCalls == Len(Calls("two"))

\* Lua arithmetic: an error unless both operands are numbers.
LuaAdd(x, y) ==
    IF x.tag = "int" /\ y.tag = "int" THEN Ok(LInt(x.v + y.v)) ELSE Err(RuntimeError)

\* The value a script returns, given its argument and the values its calls
\* of adapted callables returned (each call adjusted to one value).
ScriptReturn(s, a, vals) ==
    CASE s = "plain" -> Ok(a)
      [] s = "fwd"   -> LuaAdd(vals[1], LInt(-1))
      [] s = "two"   -> LuaAdd(vals[1], vals[2])

\* What a purely synchronous call gives: every adapted callable replaced by
\* its producer's value, the result decoded to usize.
SyncCall(s, a) ==
    LET vals == [k \in 1..Len(Calls(s)) |-> ToLua(Producer(Calls(s)[k], a))]
        r    == ScriptReturn(s, ToLua(a), vals)
    IN IF r.ok THEN FromLuaMulti(<<r.val>>) ELSE r

\* Host polls in one run: those an invocation needs to finish when its
\* producer futures report pending MaxDelay times.
PollBudget == MaxDelay + 1

VARIABLES
    adapted,     \* the adapted functions the host has created and set as globals
    helperEvals, \* how many times the "coroutine yield helper" chunk was evaluated
    prog,        \* the script function the host loaded and calls
    pfut,        \* pfut[i]: the future call_async returned (PollThreadFut or future::err)
    thread,      \* thread[i]: the coroutine of invocation i
    pinned,      \* pinned[id]: the pinned producer future of one start-stage call
    relay,       \* FUTURE_CTX: the installed task context, or NoCtx
    cur,         \* the invocation whose PollThreadFut::poll is on the stack, 0 if none
    saved,       \* the relay value the running FUTURE_CTX.set will restore
    resume_ret,  \* None while the resume runs, Some(result) once it returned
    outs,        \* outs[i]: what each poll of future i returned to the host
    resumeLog,   \* resumeLog[i]: the argument set of each resume of coroutine i
    npolls,      \* host polls made so far
    npending,    \* pending reports the producer futures have made so far
    panicked     \* a Rust panic was raised

vars == <<adapted, helperEvals, prog, pfut, thread, pinned, relay, cur, saved, resume_ret, outs, resumeLog,
          npolls, npending, panicked>>

NoCtx == <<>>
\* The task context of the p-th poll of future i.
Ctx(i, p) == <<i, p>>

FutIds == Invs \X (1..MaxCalls)
NoFutId == <<>>

NoFut == [state |-> "none"]
NoThread == [status |-> "none"]
NoPollResult == [t |-> LNil, ready |-> FALSE]
Unreachable == [panic |-> TRUE]

Init ==
    /\ adapted = {}
    /\ helperEvals = 0
    /\ prog \in Scripts
    /\ pfut = [i \in Invs |-> [kind |-> "none"]]
    /\ thread = [i \in Invs |-> NoThread]
    /\ pinned = [id \in FutIds |-> NoFut]
    /\ relay = NoCtx
    /\ cur = 0
    /\ saved = NoCtx
    /\ resume_ret = None
    /\ outs = [i \in Invs |-> <<>>]
    /\ resumeLog = [i \in Invs |-> <<>>]
    /\ npolls = 0
    /\ npending = 0
    /\ panicked = FALSE

(***************************************************************************)
(* ContextExt::create_async_function, as the host calls it: the start      *)
(* stage is wrapped in a Lua function, the "coroutine yield helper" chunk   *)
(* is loaded and evaluated, and the function it gives is called with the   *)
(* start stage; the result is the adapted function.  The host makes its    *)
(* adapted functions and sets them as globals before it calls a script.    *)
(***************************************************************************)
\* self.load(..).set_name(..)?.eval::<Function>()?: one more evaluation of the
\* chunk on every call.
EvalHelper(n) == n + 1

CreateAsyncFunction(ad) ==
    /\ ~panicked
    /\ cur = 0
    /\ ad \notin adapted
    /\ pfut[1].kind = "none"
    /\ adapted' = adapted \cup {ad}
    /\ helperEvals' = EvalHelper(helperEvals)
    /\ UNCHANGED <<prog, pfut, thread, pinned, relay, cur, saved, resume_ret, outs,
                   resumeLog, npolls, npending, panicked>>

(***************************************************************************)
(* FunctionExt::call_async.                                                *)
(***************************************************************************)
\* Mutation: create_thread runs the function up to its first adapted call.
NewThreadStarted(s) ==
    [status |-> "Resumable", pc |-> IF Calls(s) = <<>> THEN "dead" ELSE "start",
     script |-> s, a |-> LNil, k |-> IF Calls(s) = <<>> THEN 0 ELSE 1,
     vals |-> <<>>, poll |-> NoFutId, pr |-> NoPollResult]

\* A coroutine as create_thread leaves it: the function on its stack, not
\* started.
NewThread(s) ==
    [status |-> "Resumable", pc |-> "entry", script |-> s, a |-> LNil, k |-> 0,
     vals |-> <<>>, poll |-> NoFutId, pr |-> NoPollResult]

\* prog.call_async(ctx, a); created says whether create_thread succeeded.
\* The calls are independent of each other, so their order is fixed: futures
\* are numbered as they are made, and made in the order of their arguments.
CallAsync(i, a, created) ==
    /\ ~panicked
    /\ cur = 0
    /\ adapted = Adapters
    /\ pfut[i].kind = "none"
    /\ \A j \in Invs : j < i => pfut[j].kind # "none"
    /\ \A j \in Invs : (created /\ j < i /\ pfut[j].kind = "thread") => pfut[j].arg <= a
    /\ IF created
       THEN /\ pfut' = [pfut EXCEPT ![i] =
                          [kind |-> "thread", args |-> Some(a), arg |-> a]]
            /\ thread' = [thread EXCEPT ![i] = NewThread(prog)]
       ELSE /\ pfut' = [pfut EXCEPT ![i] =
                          [kind |-> "err", args |-> None, arg |-> 0]]
            /\ UNCHANGED thread
    /\ UNCHANGED <<adapted, helperEvals, prog, pinned, relay, cur, saved, resume_ret, outs, resumeLog, npolls, npending, panicked>>

\* Mutation: the failed future is pending on its first poll.
FutureErrPending(e) == PollPending

\* What a poll of future::err(e) returns: ready with e.
FutureErr(e) == PollReady(Err(e))

\* A poll of the future::err(e) that call_async returns when create_thread failed.
PollErr(i) ==
    /\ ~panicked
    /\ cur = 0
    /\ pfut[i].kind = "err"
    /\ pfut' = [pfut EXCEPT ![i].kind = "taken"]
    /\ npolls < PollBudget
    /\ outs' = [outs EXCEPT ![i] = Append(@, FutureErr(ThreadCreateError))]
    /\ npolls' = npolls + 1
    /\ UNCHANGED <<adapted, helperEvals, prog, thread, pinned, relay, cur, saved, resume_ret, resumeLog, npending,
                   panicked>>

\* Whether future i has reported ready.
Completed(i) == \E n \in 1..Len(outs[i]) : outs[i][n].ready

\* The host drops a future that has not completed, between polls.  The
\* PollThreadFut's coroutine, and with it the poll-step closures and the
\* pinned futures they own, are left to the collector.
Dropped == [kind |-> "dropped"]
DroppedThread == [status |-> "dropped"]
DroppedFut == [state |-> "dropped"]

\* Mutation: dropping the future raises an error in the suspended coroutine.
AbandonCancelled(th) == [th EXCEPT !.status = "Error", !.pc = "dead"]

\* What a dropped future leaves of its coroutine: PollThreadFut has no Drop
\* code, so the coroutine is not run again; it waits for the collector.
Abandon(th) == DroppedThread

DropFut(i) ==
    /\ ~panicked
    /\ cur = 0
    /\ pfut[i].kind \in {"thread", "err"}
    /\ ~Completed(i)
    /\ pfut' = [pfut EXCEPT ![i] = Dropped]
    /\ thread' = [thread EXCEPT ![i] = Abandon(@)]
    /\ pinned' = [id \in FutIds |->
                    IF pinned[id].state \in {"live", "done"} /\ pinned[id].owner = i
                    THEN DroppedFut ELSE pinned[id]]
    /\ outs' = [outs EXCEPT ![i] = <<>>]
    /\ resumeLog' = [resumeLog EXCEPT ![i] = <<>>]
    /\ UNCHANGED <<adapted, helperEvals, prog, relay, cur, saved, resume_ret, npolls, npending, panicked>>

(***************************************************************************)
(* The script function running inside the resume.                          *)
(***************************************************************************)
\* The coroutine ends with an error: the resume returns Err(e).
Raise(th) == [th EXCEPT !.status = "Error", !.pc = "dead", !.pr = NoPollResult]

\* Script code of the target function runs up to its next call of an adapted
\* callable, or to its return, which ends the resume with the returned value.
ScriptContinue(th) ==
    LET r == ScriptReturn(th.script, th.a, th.vals)
    IN IF th.k < Len(Calls(th.script))
       THEN [th |-> [th EXCEPT !.k = th.k + 1, !.pc = "start"], ret |-> None]
       ELSE IF r.ok
       THEN [th |-> [th EXCEPT !.status = "Unresumable", !.pc = "dead"],
             ret |-> Some(Ok(<<r.val>>))]
       ELSE [th |-> Raise(th), ret |-> Some(Err(r.err))]

(***************************************************************************)
(* PollThreadFut::poll, first half: install the context, take the          *)
(* arguments, resume the coroutine.                                        *)
(***************************************************************************)
\* Mutation: the slot is read, not taken.
TakeArgsKeep(args) == [taken |-> args, rest |-> args]

\* self.args.take(): what was in the slot, and what the slot holds afterwards.
TakeArgs(args) == [taken |-> args, rest |-> None]

\* The argument set of the resume: the taken arguments encoded, or () when
\* there were none.
ResumeArgs(taken) == IF taken # None THEN <<ToLua(taken[1])>> ELSE <<>>

\* Mutation: the helper calls f(...) again on every turn of its loop.
ResumedCallsAgain(th) == [th EXCEPT !.status = "Running", !.pc = "start"]

\* A coroutine suspended in the helper's coroutine.yield() goes on where it
\* was: the while loop comes round to local t, ready = poll().
Resumed(th) == [th EXCEPT !.status = "Running", !.pc = "poll"]

\* Mutation: a coroutine that is not resumable is started afresh.
ResumeRestart(th, rargs) ==
    IF th.pc \in {"entry", "dead"}
    THEN ScriptContinue([th EXCEPT !.status = "Running", !.k = 0, !.vals = <<>>,
                                   !.a = IF Len(rargs) = 0 THEN LNil ELSE rargs[1]])
    ELSE [th |-> Resumed(th), ret |-> None]

\* Thread::resume(rargs), up to the coroutine's first call into the bridge: a
\* coroutine that is not resumable fails with CoroutineInactive; a fresh one
\* calls its function with rargs; one suspended in coroutine.yield() goes on
\* in the helper's loop, and the yield discards the values resumed with.
Resume(th, rargs) ==
    IF th.status # "Resumable"
    THEN [th |-> th, ret |-> Some(Err(CoroutineInactive))]
    ELSE IF th.pc = "entry"
    THEN ScriptContinue([th EXCEPT !.status = "Running",
                                   !.a = IF Len(rargs) = 0 THEN LNil ELSE rargs[1]])
    ELSE [th |-> Resumed(th), ret |-> None]

PollEnter(i) ==
    /\ ~panicked
    /\ cur = 0
    /\ pfut[i].kind = "thread"
    /\ npolls < PollBudget
    /\ Cardinality({n \in 1..Len(outs[i]) : outs[i][n].ready}) <= 1
    /\ LET tk    == TakeArgs(pfut[i].args)
           rargs == ResumeArgs(tk.taken)
           r     == Resume(thread[i], rargs)
       IN /\ pfut' = [pfut EXCEPT ![i].args = tk.rest]
          /\ thread' = [thread EXCEPT ![i] = r.th]
          /\ resume_ret' = r.ret
          /\ resumeLog' = [resumeLog EXCEPT ![i] = Append(@, rargs)]
    /\ saved' = relay
    /\ relay' = Ctx(i, Len(outs[i]) + 1)
    /\ cur' = i
    /\ npolls' = npolls + 1
    /\ UNCHANGED <<adapted, helperEvals, prog, pinned, outs, npending, panicked>>

(***************************************************************************)
(* ContextExt::create_async_function: the start stage, the poll-step       *)
(* closure and the coroutine yield helper.                                 *)
(***************************************************************************)
\* Mutation: one future per adapted call site, shared by all invocations.
FutShared(i, k) == <<1, k>>

\* The pinned future of the k-th adapted call of invocation i: Box::pin makes
\* a new one on every start-stage call.
FreshFut(i, k) == <<i, k>>

\* The future func(ctx, arg) returns, not yet polled.  delay counts its
\* pending reports, fails says whether it resolved to a failure.
NewFuture(ad, a, i) ==
    [state |-> "live", ad |-> ad, arg |-> a, delay |-> 0,
     fails |-> FALSE, owner |-> i, log |-> <<>>, made |-> 1]

\* How many times the producer was invoked for the adapted call whose future
\* is f.
Invoked(f) == IF f.state \in {"live", "done"} THEN f.made ELSE 0

\* Start stage, wrapped_fun: decode the argument, invoke the producer, pin its
\* future, return the poll-step closure that owns it (local poll = f(...)).
StartStage(i) ==
    /\ ~panicked
    /\ cur = i
    /\ resume_ret = None
    /\ thread[i].pc = "start"
    /\ LET th  == thread[i]
           ad  == Calls(th.script)[th.k]
           arg == FromLuaMulti(<<th.a>>)
           id  == FreshFut(i, th.k)
       IN IF arg.ok
          THEN /\ pinned' = [pinned EXCEPT ![id] =
                      [NewFuture(ad, arg.val, i) EXCEPT !.made = Invoked(pinned[id]) + 1]]
               /\ thread' = [thread EXCEPT ![i].poll = id, ![i].pc = "poll"]
               /\ UNCHANGED resume_ret
          ELSE /\ thread' = [thread EXCEPT ![i] = Raise(th)]
               /\ resume_ret' = Some(Err(arg.err))
               /\ UNCHANGED pinned
    /\ UNCHANGED <<adapted, helperEvals, prog, pfut, relay, cur, saved, outs, resumeLog, npolls,
                   npending, panicked>>

\* Mutation: the context stays installed when set returns.
RelayKept(prev, installed) == installed

\* What FUTURE_CTX holds once set returns, or is unwound: the value it held
\* before.
RelayRestore(prev, installed) == prev

\* What one poll of a producer future can bring: the future is the host's,
\* and so is the choice.
Outcomes == {"pending", "value", "failure"}

\* Future::poll of a pinned producer future, with outcome o: pending, or ready
\* with the producer's value, or ready with a failure.
FuturePoll(f, o) ==
    IF o = "pending"
    THEN [fut |-> [f EXCEPT !.delay = @ + 1], res |-> PollPending]
    ELSE [fut |-> [f EXCEPT !.state = "done", !.fails = (o = "failure")],
          res |-> PollReady(IF o = "failure" THEN Err(ProducerErr(f.ad, f.arg))
                                             ELSE Ok(Producer(f.ad, f.arg)))]

\* Mutation: the closure keeps the context of its first poll.
PollCtxStale(rel, f) == IF f.log # <<>> THEN f.log[1].ctx ELSE rel

\* The context the poll-step closure polls with: what FUTURE_CTX holds now.
PollCtx(rel, f) == rel

\* Mutation: a failure is handed to Lua as the pending shape.
PollStepFailurePending(res) ==
    IF ~res.ready \/ ~res.res.ok
    THEN Ok([t |-> LNil, ready |-> FALSE])
    ELSE Ok([t |-> LTable(<<ToLua(res.res.val)>>), ready |-> TRUE])

\* What the poll-step closure gives back to Lua for a Poll value: (nil, false)
\* when pending, ({values}, true) when ready with a value, a raised error when
\* ready with a failure.
PollStepResult(res) ==
    IF ~res.ready
    THEN Ok([t |-> LNil, ready |-> FALSE])
    ELSE IF res.res.ok
    THEN Ok([t |-> LTable(<<ToLua(res.res.val)>>), ready |-> TRUE])
    ELSE Err(res.res.err)

\* The poll-step closure: local t, ready = poll().
PollStep(i, o) ==
    /\ ~panicked
    /\ o = "pending" => npending < MaxDelay
    /\ cur = i
    /\ resume_ret = None
    /\ thread[i].pc = "poll"
    /\ LET th   == thread[i]
           id   == th.poll
           f    == pinned[id]
           ctx  == PollCtx(relay, f)
           p    == FuturePoll(f, o)
           step == PollStepResult(p.res)
           ev   == [by |-> cur, pollno |-> Len(outs[i]) + 1, ctx |-> ctx,
                    installed |-> relay, res |-> p.res]
       IN IF relay = NoCtx \/ f.state # "live"
          THEN \* FUTURE_CTX.with outside a set, or a future polled after it
               \* completed: a panic, which unwinds through the resume and
               \* the poll; the unwinding ends FUTURE_CTX.set.
               /\ panicked' = TRUE
               /\ relay' = RelayRestore(saved, relay)
               /\ saved' = NoCtx
               /\ cur' = 0
               /\ pinned' = IF relay # NoCtx /\ f.state = "done"
                             THEN [pinned EXCEPT ![id].log = Append(@, ev)]
                             ELSE pinned
               /\ UNCHANGED <<thread, resume_ret, npending>>
          ELSE /\ pinned' = [pinned EXCEPT ![id] = [p.fut EXCEPT !.log = Append(@, ev)]]
               /\ npending' = npending + (IF o = "pending" THEN 1 ELSE 0)
               /\ IF step.ok
                  THEN /\ thread' = [thread EXCEPT ![i].pr = step.val, ![i].pc = "test"]
                       /\ UNCHANGED resume_ret
                  ELSE /\ thread' = [thread EXCEPT ![i] = Raise(th)]
                       /\ resume_ret' = Some(Err(step.err))
               /\ UNCHANGED <<relay, saved, cur, panicked>>
    /\ UNCHANGED <<adapted, helperEvals, prog, pfut, outs, resumeLog, npolls>>

\* Mutation: the test is "ready ~= nil", true of both booleans.
LoopAlwaysReady(pr) == TRUE

\* Mutation: the helper never sees the ready flag.
LoopNeverReady(pr) == FALSE

\* if ready then
LoopReady(pr) == pr.ready

\* Mutation: the table itself is returned, not its values.
UnpackWhole(t) == Ok(<<t>>)

\* table.unpack(t): the values of a table, an error for anything else.
Unpack(t) == IF t.tag = "table" THEN Ok(t.arr) ELSE Err(RuntimeError)

\* Mutation: the loop goes round without yielding.
YieldSpin(th) == [th |-> [th EXCEPT !.pc = "poll", !.pr = NoPollResult], ret |-> None]

\* coroutine.yield(): the coroutine is suspended, and the resume that ran it
\* returns the yielded values, of which there are none.
Yield(th) ==
    [th |-> [th EXCEPT !.status = "Resumable", !.pc = "yielded", !.pr = NoPollResult],
     ret |-> Some(Ok(<<>>))]

\* The rest of one turn of the helper's while loop: return table.unpack(t)
\* when ready, and the script goes on with the first of these values;
\* coroutine.yield() otherwise.  The yield ends the resume: the coroutine is
\* Resumable and the resume returns no values.
ControlLoop(i) ==
    /\ ~panicked
    /\ cur = i
    /\ resume_ret = None
    /\ thread[i].pc = "test"
    /\ LET th == thread[i]
           u  == Unpack(th.pr.t)
           c  == ScriptContinue([th EXCEPT
                    !.vals = Append(@, IF Len(u.val) = 0 THEN LNil ELSE u.val[1]),
                    !.pr = NoPollResult])
       IN IF LoopReady(th.pr)
          THEN IF u.ok
               THEN /\ thread' = [thread EXCEPT ![i] = c.th]
                    /\ resume_ret' = c.ret
               ELSE /\ thread' = [thread EXCEPT ![i] = Raise(th)]
                    /\ resume_ret' = Some(Err(u.err))
          ELSE /\ thread' = [thread EXCEPT ![i] = Yield(th).th]
               /\ resume_ret' = Yield(th).ret
    /\ UNCHANGED <<adapted, helperEvals, prog, pfut, pinned, relay, cur, saved, outs, resumeLog, npolls, npending, panicked>>

(***************************************************************************)
(* PollThreadFut::poll, second half: the match on the resume's result and  *)
(* the end of FUTURE_CTX.set.                                              *)
(***************************************************************************)
\* Mutation: a coroutine that yielded is taken for one that returned.
PollMatchEager(ret, status) ==
    IF ~ret.ok THEN PollReady(Err(ret.err))
    ELSE CASE status \in {"Resumable", "Unresumable"} -> PollReady(FromLuaMulti(ret.val))
           [] OTHER -> Unreachable

\* Mutation: the Err arm is missing, the status alone decides.
PollMatchStatusOnly(ret, status) ==
    CASE status = "Resumable"   -> PollPending
      [] status = "Unresumable" -> PollReady(FromLuaMulti(IF ret.ok THEN ret.val ELSE <<>>))
      [] OTHER                  -> Unreachable

\* match resume_ret { Err(e) => .., Ok(v) => match self.thread.status() { .. } }
PollMatch(ret, status) ==
    IF ~ret.ok THEN PollReady(Err(ret.err))
    ELSE CASE status = "Resumable"   -> PollPending
           [] status = "Unresumable" -> PollReady(FromLuaMulti(ret.val))
           [] OTHER                  -> Unreachable

PollReturn(i) ==
    /\ ~panicked
    /\ cur = i
    /\ resume_ret # None
    /\ LET out == PollMatch(resume_ret[1], thread[i].status)
       IN IF out = Unreachable
          THEN /\ panicked' = TRUE
               /\ UNCHANGED outs
          ELSE /\ outs' = [outs EXCEPT ![i] = Append(@, out)]
               /\ UNCHANGED panicked
    /\ relay' = RelayRestore(saved, relay)
    /\ saved' = NoCtx
    /\ cur' = 0
    /\ resume_ret' = None
    /\ UNCHANGED <<adapted, helperEvals, prog, pfut, thread, pinned, resumeLog, npolls, npending>>

Next ==
    \/ \E ad \in Adapters : CreateAsyncFunction(ad)
    \/ \E i \in Invs, a \in Args, created \in BOOLEAN : CallAsync(i, a, created)
    \/ \E i \in Invs : PollErr(i)
    \/ \E i \in Invs : DropFut(i)
    \/ \E i \in Invs : PollEnter(i)
    \/ \E i \in Invs : StartStage(i)
    \/ \E i \in Invs, o \in Outcomes : PollStep(i, o)
    \/ \E i \in Invs : ControlLoop(i)
    \/ \E i \in Invs : PollReturn(i)

Spec == Init /\ [][Next]_vars

(***************************************************************************)
(* executor::block_on(f.call_async(ctx, a)), as in the tests: the host     *)
(* makes one future and keeps polling it, so a poll that can be made or    *)
(* continued is made or continued.  It does not drop the future.           *)
(***************************************************************************)
BlockOnPolls ==
    \/ PollErr(1)
    \/ PollEnter(1)
    \/ StartStage(1)
    \/ \E o \in Outcomes : PollStep(1, o)
    \/ ControlLoop(1)
    \/ PollReturn(1)

BlockOnNext ==
    \/ \E ad \in Adapters : CreateAsyncFunction(ad)
    \/ \E a \in Args, created \in BOOLEAN : CallAsync(1, a, created)
    \/ BlockOnPolls

BlockOnSpec == Init /\ [][BlockOnNext]_vars /\ WF_vars(BlockOnPolls)

(***************************************************************************)
(* Vocabulary of the properties.                                           *)
(***************************************************************************)
\* The PollThreadFut futures that exist.
Threads == {i \in Invs : pfut[i].kind = "thread"}

\* The pinned futures that exist.
Pinned == {id \in FutIds : pinned[id].state \in {"live", "done"}}

\* The number of the first poll of future i that reported ready.
FirstReady(i) == CHOOSE n \in 1..Len(outs[i]) :
                    /\ outs[i][n].ready
                    /\ \A m \in 1..(n - 1) : ~outs[i][m].ready

\* The adapted calls invocation i has started.
Started(i) == {k \in 1..MaxCalls : pinned[<<i, k>>].state \in {"live", "done"}}

\* Every adapted call of the script has been made by invocation i and its
\* producer future has resolved to a value.
AllResolved(i) ==
    \A k \in 1..Len(Calls(prog)) :
        /\ pinned[<<i, k>>].state = "done"
        /\ ~pinned[<<i, k>>].fails

\* The value the future reported when it became ready.
ResolvedValue(f) == f.log[Len(f.log)].res.res.val

(***************************************************************************)
(* C1.  The script makes one adapted call (function(a) return f(a) - 1     *)
(* end) and the producer future is pending on its first N-1 polls and      *)
(* ready with value v on its N-th.  Then the call_async future reported    *)
(* pending at least N-1 times before its first ready report, and that      *)
(* report carries the script's value for v, which is v - 1.                *)
(***************************************************************************)
C1_PendingThenValue ==
    \A i \in Threads :
        (prog = "fwd" /\ Completed(i) /\ AllResolved(i)) =>
            LET f == pinned[<<i, 1>>]
                n == FirstReady(i)
            IN /\ n - 1 >= f.delay
               /\ \A m \in 1..(n - 1) : outs[i][m] = PollPending
               /\ outs[i][n] = PollReady(Ok(ResolvedValue(f) - 1))

C1_Witness ==
    \E i \in Threads :
        /\ prog = "fwd" /\ Completed(i) /\ AllResolved(i)
        /\ pinned[<<i, 1>>].delay = MaxDelay
        /\ FirstReady(i) = MaxDelay + 1
        /\ outs[i][FirstReady(i)] = PollReady(Ok(pfut[i].arg))

(***************************************************************************)
(* C2.  When the host keeps polling, a call_async future whose producer    *)
(* futures become ready reports ready in the end; for function(a) return   *)
(* f(a) - 1 end with a producer that resolves to a + 1 the result is a,    *)
(* and when the producer future was pending on its first poll, the first   *)
(* poll of the call_async future reported pending.                         *)
(***************************************************************************)
C2_ReadyValue ==
    \A i \in Threads :
        (prog = "fwd" /\ Completed(i) /\ AllResolved(i)) =>
            /\ outs[i][FirstReady(i)] = PollReady(Ok(pfut[i].arg))
            /\ pinned[<<i, 1>>].delay >= 1 =>
                  /\ FirstReady(i) > 1
                  /\ outs[i][1] = PollPending

C2_EventuallyReady ==
    /\ []C2_ReadyValue
    /\ (pfut[1].kind = "thread") ~> Completed(1)

C2_Witness ==
    \E i \in Threads :
        /\ prog = "fwd"
        /\ pfut[i].arg = 1
        /\ pinned[<<i, 1>>].state = "done"
        /\ pinned[<<i, 1>>].delay = 1
        /\ outs[i] = <<PollPending, PollReady(Ok(1))>>

(***************************************************************************)
(* C3.  When every producer future is ready on its first poll, the first   *)
(* poll of the call_async future reports ready with what a synchronous     *)
(* call of the script gives for the same argument; for producer a + 1 and  *)
(* function(a) return f(a) - 1 end that is a.                              *)
(***************************************************************************)
C3_ImmediateIsSync ==
    \A i \in Threads :
        (/\ Len(outs[i]) >= 1
         /\ AllResolved(i)
         /\ \A k \in 1..Len(Calls(prog)) : pinned[<<i, k>>].delay = 0) =>
            /\ outs[i][1] = PollReady(SyncCall(prog, pfut[i].arg))
            /\ prog = "fwd" => outs[i][1] = PollReady(Ok(pfut[i].arg))

C3_Witness ==
    \E i \in Threads :
        /\ prog = "fwd"
        /\ pfut[i].arg = 1
        /\ pinned[<<i, 1>>].state = "done"
        /\ pinned[<<i, 1>>].delay = 0
        /\ outs[i] = <<PollReady(Ok(1))>>

(***************************************************************************)
(* C4.  The script calls two adapted callables, f then g.                  *)
(* Original statement: g's producer is not invoked before f's future       *)
(* reported ready, the call_async future reports pending on every poll in  *)
(* which a producer future reported pending, and it reports ready only     *)
(* after both producer futures reported ready, with a result built from    *)
(* both values.                                                            *)
(***************************************************************************)
\* g's producer is invoked only once f's future has resolved to a value.
C4_SecondAfterFirst ==
    \A i \in Threads :
        (prog = "two" /\ 2 \in Started(i)) =>
            /\ pinned[<<i, 1>>].state = "done"
            /\ ~pinned[<<i, 1>>].fails

\* A host poll in which a producer future reported pending reports pending.
C4_PendingIsPending ==
    \A i \in Threads : \A k \in Started(i) :
        \A n \in 1..Len(pinned[<<i, k>>].log) :
            LET e == pinned[<<i, k>>].log[n]
            IN (prog = "two" /\ ~e.res.ready /\ Len(outs[e.by]) >= e.pollno) =>
                   outs[e.by][e.pollno] = PollPending

\* The original statement: ready only after both futures reported ready.
C4_Original ==
    /\ C4_SecondAfterFirst
    /\ C4_PendingIsPending
    /\ \A i \in Threads :
          (prog = "two" /\ Completed(i)) =>
              /\ \A k \in 1..2 : pinned[<<i, k>>].state = "done"
              /\ AllResolved(i) =>
                    outs[i][FirstReady(i)] =
                        PollReady(Ok((pfut[i].arg + 1) + 2 * pfut[i].arg))

\* As amended: ready with a value only after both futures reported ready with
\* values; ready with a failure once the first failing future reported it.
C4_Composition ==
    /\ C4_SecondAfterFirst
    /\ C4_PendingIsPending
    /\ \A i \in Threads :
          (prog = "two" /\ Completed(i)) =>
              LET out == outs[i][FirstReady(i)]
              IN /\ out.res.ok =>
                      /\ AllResolved(i)
                      /\ out = PollReady(Ok((pfut[i].arg + 1) + 2 * pfut[i].arg))
                 /\ ~out.res.ok =>
                      \E k \in Started(i) :
                          /\ pinned[<<i, k>>].state = "done"
                          /\ pinned[<<i, k>>].fails
                          /\ \A j \in 1..(k - 1) : pinned[<<i, j>>].state = "done"
                          /\ \A j \in (k + 1)..2 : j \notin Started(i)

C4_Witness ==
    \E i \in Threads :
        /\ prog = "two"
        /\ pfut[i].arg = 1
        /\ AllResolved(i)
        /\ pinned[<<i, 1>>].delay = 1
        /\ pinned[<<i, 2>>].delay = 1
        /\ outs[i] = <<PollPending, PollPending, PollReady(Ok(4))>>

(***************************************************************************)
(* C5.  A producer future that resolves to a failure: the poll-step        *)
(* closure raises the failure (no PollResult is returned for it), the      *)
(* helper loop neither yields nor polls again, and the host poll in which  *)
(* it happened reports ready with that same failure; the call_async future *)
(* reports no value.                                                       *)
(***************************************************************************)
C5_FailurePropagates ==
    \A id \in Pinned :
        LET f == pinned[id]
            e == f.log[Len(f.log)]
            x == ProducerErr(f.ad, f.arg)
        IN (f.state = "done" /\ f.fails) =>
              /\ e.res = PollReady(Err(x))
              /\ Len(f.log) = f.delay + 1
              /\ thread[e.by].status = "Error"
              /\ thread[e.by].pc = "dead"
              /\ thread[e.by].pr = NoPollResult
              /\ IF Len(outs[e.by]) < e.pollno
                 THEN cur = e.by /\ resume_ret = Some(Err(x))
                 ELSE outs[e.by][e.pollno] = PollReady(Err(x))
              /\ \A n \in 1..Len(outs[e.by]) :
                    outs[e.by][n].ready => ~outs[e.by][n].res.ok

C5_Witness ==
    \E i \in Threads :
        /\ pinned[<<i, 1>>].state = "done"
        /\ pinned[<<i, 1>>].fails
        /\ pinned[<<i, 1>>].delay = 1
        /\ outs[i] = <<PollPending, PollReady(Err(ProducerErr("f", pfut[i].arg)))>>

(***************************************************************************)
(* C6.  Every host poll of a PollThreadFut makes one resume of its         *)
(* coroutine, and a poll whose resume left the coroutine suspended returns *)
(* pending to the host without resuming again.                             *)
(***************************************************************************)
C6_ResumesMatchPolls ==
    \A i \in Threads :
        Len(resumeLog[i]) = Len(outs[i]) + (IF cur = i THEN 1 ELSE 0)

C6_SuspendedReturnsPending ==
    \A i \in Invs :
        (cur = i /\ resume_ret # None /\ thread[i].status = "Resumable") =>
            /\ cur' = 0
            /\ outs'[i] = Append(outs[i], PollPending)
            /\ resumeLog'[i] = resumeLog[i]
            /\ thread'[i] = thread[i]

C6_OneResumePerPoll ==
    /\ []C6_ResumesMatchPolls
    /\ [][C6_SuspendedReturnsPending]_vars

C6_Witness ==
    \E i \in Threads :
        /\ cur = 0
        /\ Len(resumeLog[i]) = 2
        /\ outs[i] = <<PollPending, PollPending>>

(***************************************************************************)
(* C7.  The arguments of call_async go to the coroutine with its first     *)
(* resume only: the slot holds them before the first poll and is empty     *)
(* after it, and every later resume carries no arguments.                  *)
(***************************************************************************)
C7_ArgsFirstResumeOnly ==
    \A i \in Threads :
        /\ Len(resumeLog[i]) = 0 => pfut[i].args = Some(pfut[i].arg)
        /\ Len(resumeLog[i]) >= 1 =>
              /\ pfut[i].args = None
              /\ resumeLog[i][1] = <<ToLua(pfut[i].arg)>>
              /\ \A n \in 2..Len(resumeLog[i]) : resumeLog[i][n] = <<>>

C7_Witness ==
    \E i \in Threads :
        /\ pfut[i].args = None
        /\ resumeLog[i] = <<<<ToLua(1)>>, <<>>, <<>>>>

(***************************************************************************)
(* C8.  A pinned future is polled only inside a host poll, while that      *)
(* poll's context is installed in FUTURE_CTX, and with that context, not   *)
(* with one of an earlier poll.  FUTURE_CTX is never read while empty.     *)
(***************************************************************************)
C8_PolledWithInstalledCtx ==
    /\ ~panicked
    /\ \A i \in Threads :
          thread[i].status = "Running" =>
              /\ cur = i
              /\ relay = Ctx(i, Len(outs[i]) + 1)
    /\ \A id \in Pinned : \A n \in 1..Len(pinned[id].log) :
          LET e == pinned[id].log[n]
          IN /\ e.by \in Invs
             /\ e.installed = Ctx(e.by, e.pollno)
             /\ e.ctx = e.installed

C8_Witness ==
    \E id \in Pinned :
        /\ Len(pinned[id].log) = 3
        /\ pinned[id].log[1].ctx # pinned[id].log[2].ctx
        /\ pinned[id].log[3].ctx = Ctx(id[1], 3)

(***************************************************************************)
(* C9.  FUTURE_CTX holds a context exactly while a PollThreadFut::poll is  *)
(* on the stack: that poll's context while it runs, nothing once it has    *)
(* returned, whether it returned pending, a value or a failure.            *)
(***************************************************************************)
C9_RelayScoped ==
    /\ cur = 0 => relay = NoCtx
    /\ cur # 0 => (relay = Ctx(cur, Len(outs[cur]) + 1) /\ saved = NoCtx)

C9_Witness ==
    /\ cur = 0
    /\ relay = NoCtx
    /\ \E i \in Threads : outs[i] = <<PollPending, PollReady(Ok(pfut[i].arg))>>
    /\ \E i \in Threads : \E n \in 1..Len(outs[i]) :
          outs[i][n].ready /\ ~outs[i][n].res.ok

(***************************************************************************)
(* C10.  Two outstanding invocations of one adapted callable have separate *)
(* producer futures: each pinned future is polled only in host polls of    *)
(* the invocation that made it, and each invocation completes with the     *)
(* result for its own argument.                                            *)
(***************************************************************************)
C10_SeparateFutures ==
    /\ \A id \in Pinned :
          /\ pinned[id].owner = id[1]
          /\ pinned[id].arg = pfut[id[1]].arg
          /\ \A n \in 1..Len(pinned[id].log) : pinned[id].log[n].by = id[1]
    /\ \A i \in Threads :
          Completed(i) =>
              LET out == outs[i][FirstReady(i)]
              IN IF AllResolved(i)
                 THEN out = PollReady(SyncCall(prog, pfut[i].arg))
                 ELSE \E k \in Started(i) :
                          /\ pinned[<<i, k>>].fails
                          /\ out = PollReady(Err(ProducerErr(Calls(prog)[k], pfut[i].arg)))

C10_Witness ==
    /\ prog = "fwd"
    /\ pfut[1].kind = "thread" /\ pfut[2].kind = "thread"
    /\ pfut[1].arg = 0 /\ pfut[2].arg = 1
    /\ pinned[<<1, 1>>].state = "live"
    /\ outs[1] = <<PollPending>>
    /\ pinned[<<2, 1>>].state = "done"
    /\ pinned[<<2, 1>>].delay = 1
    /\ outs[2] = <<PollPending, PollReady(Ok(1))>>

(***************************************************************************)
(* C11.  The producer is invoked once for every call the script makes of   *)
(* an adapted function, however many host polls the call takes: the calls  *)
(* the script has made are the pinned futures that exist, each made by one *)
(* invocation of the producer, and the later polls poll that same future.  *)
(***************************************************************************)
C11_ProducerOncePerCall ==
    \A i \in Threads :
        /\ \A k \in 1..MaxCalls :
              k \in Started(i) <=>
                  (k < thread[i].k \/ (k = thread[i].k /\ thread[i].pc # "start"))
        /\ \A k \in Started(i) :
              LET f == pinned[<<i, k>>]
              IN /\ f.made = 1
                 /\ f.ad = Calls(prog)[k]

C11_Witness ==
    \E id \in Pinned :
        /\ pinned[id].state = "done"
        /\ pinned[id].made = 1
        /\ Len(pinned[id].log) = 3
        /\ \A n \in 1..3 : pinned[id].log[n].pollno = n

(***************************************************************************)
(* C12.  A resume that returns a failure makes the poll that made it       *)
(* report ready with that failure; a resume that returns success leaves    *)
(* the coroutine Resumable or Unresumable, never in status Error.  So the  *)
(* unreachable!() of PollThreadFut::poll is never reached.                 *)
(***************************************************************************)
C12_StatusAfterResume ==
    /\ ~panicked
    /\ \A i \in Threads :
          (cur = i /\ resume_ret # None) =>
              LET r == resume_ret[1]
              IN /\ r.ok => thread[i].status \in {"Resumable", "Unresumable"}
                 /\ thread[i].status = "Error" => ~r.ok
                 /\ PollMatch(r, thread[i].status) # Unreachable

C12_FailureReportedAtOnce ==
    \A i \in Invs :
        (cur = i /\ resume_ret # None /\ ~resume_ret[1].ok) =>
            /\ cur' = 0
            /\ outs'[i] = Append(outs[i], PollReady(Err(resume_ret[1].err)))
            /\ ~panicked'

C12_UnreachableNotReached ==
    /\ []C12_StatusAfterResume
    /\ [][C12_FailureReportedAtOnce]_vars

C12_Witness ==
    \E i \in Threads :
        /\ ~panicked
        /\ cur = 0
        /\ thread[i].status = "Error"
        /\ outs[i] = <<PollReady(Err(ProducerErr("f", pfut[i].arg)))>>

(***************************************************************************)
(* C13.  A call_async future that is still pending can be dropped between  *)
(* any two polls.  Afterwards its coroutine is not resumed, its pinned     *)
(* futures are not polled, and the script code that was in flight gets no  *)
(* error or other signal; the drop itself runs nothing and leaves the      *)
(* other futures as they are.                                              *)
(***************************************************************************)
DroppedInvs == {i \in Invs : pfut[i].kind = "dropped"}

C13_DroppedIsAbandoned ==
    /\ ~panicked
    /\ \A i \in DroppedInvs :
          /\ cur # i
          /\ thread[i] = DroppedThread
          /\ \A k \in 1..MaxCalls : pinned[<<i, k>>].state \in {"none", "dropped"}

C13_DroppedStaysUntouched ==
    /\ \A i \in DroppedInvs :
          /\ pfut'[i] = pfut[i]
          /\ thread'[i] = thread[i]
          /\ resumeLog'[i] = resumeLog[i]
          /\ outs'[i] = outs[i]
          /\ \A k \in 1..MaxCalls : pinned'[<<i, k>>] = pinned[<<i, k>>]
    /\ \A i \in Invs :
          (pfut[i].kind = "thread" /\ pfut'[i].kind = "dropped") =>
              /\ ~Completed(i)
              /\ cur = 0 /\ cur' = 0
              /\ relay' = relay /\ resume_ret' = resume_ret /\ npolls' = npolls
              /\ \A j \in Invs \ {i} :
                    /\ thread'[j] = thread[j]
                    /\ outs'[j] = outs[j]
                    /\ \A k \in 1..MaxCalls : pinned'[<<j, k>>] = pinned[<<j, k>>]

C13_DropIsSafe ==
    /\ []C13_DroppedIsAbandoned
    /\ [][C13_DroppedStaysUntouched]_vars

C13_Witness ==
    /\ pfut[1].kind = "dropped"
    /\ pinned[<<1, 1>>] = DroppedFut
    /\ thread[1] = DroppedThread
    /\ pfut[2].kind = "thread"
    /\ pinned[<<2, 1>>].state = "done"
    /\ outs[2] = <<PollPending, PollReady(Ok(pfut[2].arg))>>
    /\ npolls = 3

(***************************************************************************)
(* C14.  A failure ends the invocation for good.  Once a call_async future *)
(* has reported ready with a failure, a later poll of it runs no script    *)
(* code, polls no producer future, and reports neither pending nor a       *)
(* value: its resume fails at once, the coroutine being dead.              *)
(***************************************************************************)
\* The call_async futures whose first ready report was a failure.
Failed == {i \in Threads : Completed(i) /\ ~outs[i][FirstReady(i)].res.ok}

C14_FailureIsFinal ==
    \A i \in Failed :
        LET n == FirstReady(i)
        IN /\ \A m \in (n + 1)..Len(outs[i]) :
                 outs[i][m].ready /\ ~outs[i][m].res.ok
           /\ thread[i].pc = "dead"
           /\ thread[i].status \in {"Error", "Unresumable"}
           /\ cur = i => resume_ret = Some(Err(CoroutineInactive))
           /\ \A k \in Started(i) : \A e \in 1..Len(pinned[<<i, k>>].log) :
                 pinned[<<i, k>>].log[e].pollno <= n

C14_Witness ==
    \E i \in Failed :
        /\ cur = 0
        /\ outs[i] = <<PollPending,
                       PollReady(Err(ProducerErr("f", pfut[i].arg))),
                       PollReady(Err(CoroutineInactive))>>
        /\ Len(pinned[<<i, 1>>].log) = 2

(***************************************************************************)
(* C15.  When create_thread fails, call_async returns a future that is     *)
(* ready with that failure on its first poll; no coroutine exists for it,  *)
(* nothing is resumed, and no script code or producer runs.                *)
(***************************************************************************)
C15_CreationFailure ==
    \A i \in Invs :
        pfut[i].kind \in {"err", "taken"} =>
            /\ thread[i] = NoThread
            /\ resumeLog[i] = <<>>
            /\ cur # i
            /\ \A k \in 1..MaxCalls : pinned[<<i, k>>] = NoFut
            /\ pfut[i].kind = "err" => outs[i] = <<>>
            /\ pfut[i].kind = "taken" => outs[i] = <<PollReady(Err(ThreadCreateError))>>

C15_Witness ==
    \E i \in Invs :
        /\ pfut[i].kind = "taken"
        /\ thread[i] = NoThread
        /\ outs[i] = <<PollReady(Err(ThreadCreateError))>>
        /\ \E j \in Threads : Completed(j)

(***************************************************************************)
(* C16.  The poller reports pending exactly when the coroutine suspended   *)
(* at the helper's coroutine.yield(): a host poll reported pending if and  *)
(* only if, in that poll, a pinned producer future of the invocation was   *)
(* polled with that poll's context and reported pending.  (The scripts do  *)
(* not use coroutine primitives themselves.)                               *)
(***************************************************************************)
\* In the n-th poll of future i a pinned future of its invocation was polled
\* with that poll's context and reported pending.
ProducerPendingIn(i, n) ==
    \E k \in Started(i) : \E e \in 1..Len(pinned[<<i, k>>].log) :
        LET ev == pinned[<<i, k>>].log[e]
        IN ev.by = i /\ ev.pollno = n /\ ~ev.res.ready /\ ev.ctx = Ctx(i, n)

C16_PendingIsYield ==
    \A i \in Threads :
        /\ \A n \in 1..Len(outs[i]) : (outs[i][n] = PollPending) <=> ProducerPendingIn(i, n)
        /\ thread[i].pc = "yielded" =>
              /\ thread[i].status = "Resumable"
              /\ ProducerPendingIn(i, Len(resumeLog[i]))
              /\ IF cur = i
                 THEN resume_ret = Some(Ok(<<>>))
                 ELSE outs[i][Len(outs[i])] = PollPending
        /\ (cur # i /\ Len(outs[i]) > 0 /\ outs[i][Len(outs[i])] = PollPending) =>
              thread[i].pc = "yielded"

C16_Witness ==
    \E i \in Threads :
        /\ prog = "two"
        /\ cur = 0
        /\ thread[i].pc = "yielded"
        /\ thread[i].k = 2
        /\ outs[i] = <<PollPending>>
        /\ pinned[<<i, 1>>].state = "done"
        /\ Len(pinned[<<i, 2>>].log) = 1

(***************************************************************************)
(* C17.  One call of the poll-step closure polls its future once, and a    *)
(* pinned future is polled at most once in one host poll: after a pending  *)
(* report the helper yields, and the next poll of the future is in a later *)
(* host poll.                                                              *)
(***************************************************************************)
C17_OnePollPerHostPoll ==
    \A id \in Pinned :
        LET f == pinned[id]
        IN /\ Len(f.log) = f.delay + (IF f.state = "done" THEN 1 ELSE 0)
           /\ \A n \in 1..(Len(f.log) - 1) :
                 /\ f.log[n].by = f.log[n + 1].by
                 /\ f.log[n].pollno < f.log[n + 1].pollno
           /\ (thread[id[1]].pc = "test" /\ thread[id[1]].poll = id) =>
                 /\ f.log # <<>>
                 /\ f.log[Len(f.log)].pollno = Len(outs[id[1]]) + 1

C17_Witness ==
    \E i \in Threads :
        /\ prog = "two"
        /\ pinned[<<i, 1>>].state = "done"
        /\ pinned[<<i, 2>>].state = "done"
        /\ Len(pinned[<<i, 1>>].log) = 2
        /\ Len(pinned[<<i, 2>>].log) = 2
        /\ pinned[<<i, 1>>].log[2].pollno = 2
        /\ pinned[<<i, 2>>].log[1].pollno = 2
        /\ pinned[<<i, 2>>].log[2].pollno = 3

(***************************************************************************)
(* C19.  A pinned producer future that has reported ready, with a value or *)
(* with a failure, is not polled again, in the same host poll or a later   *)
(* one: on ready the helper returns or is aborted, and nothing else can    *)
(* call the poll-step closure.                                             *)
(***************************************************************************)
C19_NoPollAfterReady ==
    \A id \in Pinned :
        LET f  == pinned[id]
            th == thread[id[1]]
        IN /\ \A n \in 1..(Len(f.log) - 1) : ~f.log[n].res.ready
           /\ f.state = "done" =>
                 /\ f.log # <<>>
                 /\ f.log[Len(f.log)].res.ready
                 /\ ~(th.pc = "poll" /\ th.poll = id)
                 /\ th.pc = "yielded" => th.poll # id
           /\ f.state = "live" => \A n \in 1..Len(f.log) : ~f.log[n].res.ready

C19_Witness ==
    \E i \in Threads :
        /\ prog = "two"
        /\ cur = 0
        /\ pinned[<<i, 1>>].state = "done"
        /\ Len(pinned[<<i, 1>>].log) = 1
        /\ pinned[<<i, 2>>].state = "done"
        /\ pinned[<<i, 2>>].fails
        /\ Len(pinned[<<i, 2>>].log) = 2
        /\ Len(outs[i]) = 3

(***************************************************************************)
(* C18.  As stated: the control-loop snippet is installed once and shared  *)
(* by all adapted functions, so after any number of create_async_function  *)
(* calls it has been loaded and evaluated once.                            *)
(***************************************************************************)
C18_HelperEvaluatedOnce ==
    adapted # {} => helperEvals = 1

(***************************************************************************)
(* C20.  call_async is lazy.  Between call_async and the first poll of the *)
(* future it returned, the coroutine has not been resumed, no script code  *)
(* has run and no producer has been invoked; the arguments wait in the     *)
(* future.  All of that happens first inside the first poll.               *)
(***************************************************************************)
C20_Lazy ==
    \A i \in Threads :
        /\ (outs[i] = <<>> /\ cur # i) =>
              /\ thread[i].status = "Resumable"
              /\ thread[i].pc = "entry"
              /\ thread[i].k = 0
              /\ thread[i].vals = <<>>
              /\ resumeLog[i] = <<>>
              /\ pfut[i].args = Some(pfut[i].arg)
              /\ \A k \in 1..MaxCalls : pinned[<<i, k>>] = NoFut
        /\ (thread[i].pc # "entry" \/ Started(i) # {}) =>
              /\ Len(resumeLog[i]) >= 1
              /\ pfut[i].args = None

C20_Witness ==
    /\ cur = 2
    /\ prog = "fwd"
    /\ pfut[1].kind = "thread" /\ outs[1] = <<>> /\ thread[1].pc = "entry"
    /\ pfut[1].args = Some(pfut[1].arg)
    /\ pinned[<<1, 1>>] = NoFut
    /\ outs[2] = <<>> /\ resumeLog[2] = <<<<ToLua(pfut[2].arg)>>>>
    /\ pinned[<<2, 1>>].state = "live"

====
